---------------------------- MODULE Spec2Model ----------------------------
(***************************************************************************)
(* Model of the Enigma training-data generator (src/src/data_generator.py  *)
(* with the vocabulary of src/src/message_templates.py).                   *)
(*                                                                         *)
(* A character is its Unicode code point, a string is a sequence of code   *)
(* points.  The external Enigma executable is an opaque oracle: its exit   *)
(* status and standard output are nondeterministic.                        *)
(***************************************************************************)
EXTENDS Integers, Sequences, FiniteSets, TLC

(***************************************************************************)
(* Bounds of the model.                                                    *)
(***************************************************************************)
\* largest requested sample count (the --count argument)
MaxCount == 2
\* largest batch size (the --batch-size argument)
MaxBatch == 2
\* longest string handed to the feature functions in FeatureSpec
MaxFxLen == 2

(***************************************************************************)
(* Characters: str.upper() and str.isalpha() on the characters that occur  *)
(* in the templates and pools (ASCII, o-umlaut 246, a-umlaut 228).         *)
(***************************************************************************)
AsciiUpper == 65..90
AsciiLower == 97..122

\* c.upper() for one character
upper(c) ==
    IF c \in AsciiLower THEN c - 32
    ELSE IF c = 246 THEN 214
    ELSE IF c = 228 THEN 196
    ELSE c

\* c.isalpha(): true of every Unicode letter, the umlauts included
isalpha(c) == c \in AsciiUpper \cup AsciiLower \cup {196, 214, 228, 246}

\* s.upper()
Upper(s) == [i \in 1..Len(s) |-> upper(s[i])]

\* ''.join(c for c in s if c.isalpha())
RECURSIVE AlphaOnly(_)
AlphaOnly(s) ==
    IF s = <<>> THEN <<>>
    ELSE (IF isalpha(Head(s)) THEN <<Head(s)>> ELSE <<>>) \o AlphaOnly(Tail(s))

\* s[:n], Python slice semantics: a negative n counts from the end
SliceTo(s, n) ==
    IF n >= 0 THEN SubSeq(s, 1, IF n < Len(s) THEN n ELSE Len(s))
    ELSE SubSeq(s, 1, IF Len(s) + n > 0 THEN Len(s) + n ELSE 0)

\* the truncation of generate_plaintext / generate_dataset
Truncate(raw, maxlen) == IF Len(raw) > maxlen THEN SliceTo(raw, maxlen) ELSE raw

\* truncate, uppercase, keep the alphabetic characters
Normalize(raw, maxlen) == AlphaOnly(Upper(Truncate(raw, maxlen)))

(***************************************************************************)
(* Number formatting of the f-strings and str.format.                      *)
(***************************************************************************)
RECURSIVE Digits(_)
Digits(n) == IF n < 10 THEN <<48 + n>> ELSE Digits(n \div 10) \o <<48 + (n % 10)>>

\* "{n}" for an int
IntStr(n) == IF n < 0 THEN <<45>> \o Digits(-n) ELSE Digits(n)

\* "{n:02d}" for 0 <= n <= 99
Pad2(n) == <<48 + (n \div 10), 48 + (n % 10)>>

(***************************************************************************)
(* Vocabulary pools of message_templates.py used by the generators.        *)
(***************************************************************************)
\* Kriegsmarine, Wehrmacht, Oberkommando der Marine, OKM, Luftwaffe, Abwehr,
\* Abteilung, U-Bootwaffe, Flottenkommando
MILITARY_UNITS ==
    << <<75,114,105,101,103,115,109,97,114,105,110,101>>,
       <<87,101,104,114,109,97,99,104,116>>,
       <<79,98,101,114,107,111,109,109,97,110,100,111,32,100,101,114,32,77,97,114,105,110,101>>,
       <<79,75,77>>,
       <<76,117,102,116,119,97,102,102,101>>,
       <<65,98,119,101,104,114>>,
       <<65,98,116,101,105,108,117,110,103>>,
       <<85,45,66,111,111,116,119,97,102,102,101>>,
       <<70,108,111,116,116,101,110,107,111,109,109,97,110,100,111>> >>

\* AN BEFEHLSHABER, AN GRUPPE, VON KOMMANDO, FUNKSPRUCH, GEHEIME KOMMANDOSACHE
MESSAGE_OPENINGS ==
    << <<65,78,32,66,69,70,69,72,76,83,72,65,66,69,82>>,
       <<65,78,32,71,82,85,80,80,69>>,
       <<86,79,78,32,75,79,77,77,65,78,68,79>>,
       <<70,85,78,75,83,80,82,85,67,72>>,
       <<71,69,72,69,73,77,69,32,75,79,77,77,65,78,68,79,83,65,67,72,69>> >>

\* Befehl, Anweisung, Abtreten, Abweisen, Absetzung, Aufgabe, Aufklarung
COMMAND_TERMS ==
    << <<66,101,102,101,104,108>>,
       <<65,110,119,101,105,115,117,110,103>>,
       <<65,98,116,114,101,116,101,110>>,
       <<65,98,119,101,105,115,101,110>>,
       <<65,98,115,101,116,122,117,110,103>>,
       <<65,117,102,103,97,98,101>>,
       <<65,117,102,107,108,97,114,117,110,103>> >>

\* Schnellboot, Hilfskreuzer, Zerst(o-umlaut)rer, Schlachtschiff, Panzerschiff,
\* Unterseeboot, Minensucher, Torpedoboot, Flugzeugtr(a-umlaut)ger, Kreuzer,
\* Flakschiff, Vorpostenboot
VESSELS ==
    << <<83,99,104,110,101,108,108,98,111,111,116>>,
       <<72,105,108,102,115,107,114,101,117,122,101,114>>,
       <<90,101,114,115,116,246,114,101,114>>,
       <<83,99,104,108,97,99,104,116,115,99,104,105,102,102>>,
       <<80,97,110,122,101,114,115,99,104,105,102,102>>,
       <<85,110,116,101,114,115,101,101,98,111,111,116>>,
       <<77,105,110,101,110,115,117,99,104,101,114>>,
       <<84,111,114,112,101,100,111,98,111,111,116>>,
       <<70,108,117,103,122,101,117,103,116,114,228,103,101,114>>,
       <<75,114,101,117,122,101,114>>,
       <<70,108,97,107,115,99,104,105,102,102>>,
       <<86,111,114,112,111,115,116,101,110,98,111,111,116>> >>

\* AJ47, BF13, CK89, AL88, AM63, BC10, BD20, CX33, DJ56, FG77, HI22, JK45
GRID_SQUARES ==
    << <<65,74,52,55>>,
       <<66,70,49,51>>,
       <<67,75,56,57>>,
       <<65,76,56,56>>,
       <<65,77,54,51>>,
       <<66,67,49,48>>,
       <<66,68,50,48>>,
       <<67,88,51,51>>,
       <<68,74,53,54>>,
       <<70,71,55,55>>,
       <<72,73,50,50>>,
       <<74,75,52,53>> >>

\* NORD, OST, SUED, WEST, NORDOST, SUEDOST, SUEDWEST, NORDWEST
WIND_DIRS ==
    << <<78,79,82,68>>, <<79,83,84>>, <<83,85,69,68>>, <<87,69,83,84>>,
       <<78,79,82,68,79,83,84>>, <<83,85,69,68,79,83,84>>,
       <<83,85,69,68,87,69,83,84>>, <<78,79,82,68,87,69,83,84>> >>

\* KLAR, BEWOELKT, REGEN, NEBEL, SCHNEE, STURM, ""
PHENOMENA ==
    << <<75,76,65,82>>, <<66,69,87,79,69,76,75,84>>, <<82,69,71,69,78>>,
       <<78,69,66,69,76>>, <<83,67,72,78,69,69>>, <<83,84,85,82,77>>, <<>> >>

SP == <<32>>
\* "UHR"
UHR == <<85,72,82>>
\* "QUADRAT "
QUADRAT_ == <<81,85,65,68,82,65,84,32>>
\* " GESCHWINDIGKEIT "
GESCHWINDIGKEIT_ == <<32,71,69,83,67,72,87,73,78,68,73,71,75,69,73,84,32>>
\* "UHR KURS "
UHR_KURS_ == <<85,72,82,32,75,85,82,83,32>>

\* "WETTERKURZSIGNAL QUADRAT {grid} {time}UHR {temp}GRAD {visibility}KM
\*  {wind_dir} {wind_strength} {pressure} {phenomenon}"
WEATHER_REPORT_TEMPLATE(grid, time, temp, visibility, wind_dir, wind_strength, pressure, phenomenon) ==
    <<87,69,84,84,69,82,75,85,82,90,83,73,71,78,65,76,32>> \o QUADRAT_
      \o grid \o SP \o time \o UHR \o SP \o IntStr(temp) \o <<71,82,65,68,32>>
      \o IntStr(visibility) \o <<75,77,32>> \o wind_dir \o SP
      \o IntStr(wind_strength) \o SP \o IntStr(pressure) \o SP \o phenomenon

\* "STANDORT QUADRAT {grid} {time}UHR KURS {course} GESCHWINDIGKEIT {speed}"
POSITION_REPORT_TEMPLATE(grid, time, course, speed) ==
    <<83,84,65,78,68,79,82,84,32>> \o QUADRAT_ \o grid \o SP \o time
      \o UHR_KURS_ \o IntStr(course) \o GESCHWINDIGKEIT_ \o IntStr(speed)

\* "FEINDSICHTUNG {vessel_type} {number} {location} {time}UHR KURS {course}
\*  GESCHWINDIGKEIT {speed}"
ENEMY_SIGHTING_TEMPLATE(vessel_type, number, location, time, course, speed) ==
    <<70,69,73,78,68,83,73,67,72,84,85,78,71,32>> \o vessel_type \o SP
      \o IntStr(number) \o SP \o location \o SP \o time \o UHR_KURS_
      \o IntStr(course) \o GESCHWINDIGKEIT_ \o IntStr(speed)

(***************************************************************************)
(* The random draws, each from a small subset of the range the code draws  *)
(* from (indices into the pools, values of random.randint).                *)
(***************************************************************************)
GridDraws == {1}
\* Zerstoerer, with an umlaut
VesselDraws == {3}
\* AN GRUPPE
OpeningDraws == {2}
\* U-Bootwaffe
UnitDraws == {8}
CommandDraws == {1}
HourDraws == {7}
MinuteDraws == {5}
TempDraws == {-5}
VisibilityDraws == {12}
WindDirDraws == {3}
WindStrengthDraws == {4}
PressureDraws == {1013}
PhenomenonDraws == {5}
CourseDraws == {90}
SpeedDraws == {8}
NumberDraws == {2}

\* f"{random.randint(0, 23):02d}{random.randint(0, 59):02d}"
TimeDraws == {Pad2(h) \o Pad2(m) : h \in HourDraws, m \in MinuteDraws}

\* f"QUADRAT {random.choice(mt.GRID_SQUARES)}"
LocationDraws == {QUADRAT_ \o GRID_SQUARES[g] : g \in GridDraws}

generate_weather_report ==
    {WEATHER_REPORT_TEMPLATE(GRID_SQUARES[g], t, temp, vis, WIND_DIRS[wd], ws, p,
                             PHENOMENA[ph]) :
        g \in GridDraws, t \in TimeDraws, temp \in TempDraws,
        vis \in VisibilityDraws, wd \in WindDirDraws, ws \in WindStrengthDraws,
        p \in PressureDraws, ph \in PhenomenonDraws}

generate_position_report ==
    {POSITION_REPORT_TEMPLATE(GRID_SQUARES[g], t, c, s) :
        g \in GridDraws, t \in TimeDraws, c \in CourseDraws, s \in SpeedDraws}

generate_enemy_sighting ==
    {ENEMY_SIGHTING_TEMPLATE(VESSELS[v], n, loc, t, c, s) :
        v \in VesselDraws, n \in NumberDraws, loc \in LocationDraws,
        t \in TimeDraws, c \in CourseDraws, s \in SpeedDraws}

\* f"{prefix} {unit} {command} {vessel} {location}"
generate_military_message ==
    {MESSAGE_OPENINGS[o] \o SP \o MILITARY_UNITS[u] \o SP \o COMMAND_TERMS[c]
       \o SP \o VESSELS[v] \o SP \o loc :
        o \in OpeningDraws, u \in UnitDraws, c \in CommandDraws,
        v \in VesselDraws, loc \in LocationDraws}

MessageTypes == {"WEATHER", "POSITION", "SIGHTING", "MILITARY"}

\* the raw texts of one message type
RawTexts(message_type) ==
    CASE message_type = "WEATHER" -> generate_weather_report
      [] message_type = "POSITION" -> generate_position_report
      [] message_type = "SIGHTING" -> generate_enemy_sighting
      [] OTHER -> generate_military_message

\* generate_plaintext(max_length): every plaintext it can return
generate_plaintext(maxlen) ==
    {Normalize(raw, maxlen) : raw \in UNION {RawTexts(t) : t \in MessageTypes}}

(***************************************************************************)
(* Python floats.  a / b on ints is the correctly rounded IEEE-754         *)
(* binary64 quotient.  A positive float is (h*2^36 + m*2^18 + l) *         *)
(* 2^(-scale): a 53-bit mantissa in three limbs, 2^16 <= h < 2^17 and      *)
(* m, l < 2^18 (limbs keep every product below 2^31).  Zero is FZero.      *)
(***************************************************************************)
B16 == 2^16
B17 == 2^17
B18 == 2^18

FZero == [h |-> 0, m |-> 0, l |-> 0, scale |-> 0]

RECURSIVE Pow2(_)
Pow2(k) == IF k = 0 THEN 1 ELSE 2 * Pow2(k - 1)

\* the number of binary digits of n >= 0
RECURSIVE BitLen(_)
BitLen(n) == IF n = 0 THEN 0 ELSE 1 + BitLen(n \div 2)

\* round to nearest, ties to even: add one unit in the last place when up
RoundMant(h, m, l, up, scale) ==
    IF ~up THEN [h |-> h, m |-> m, l |-> l, scale |-> scale]
    ELSE IF l + 1 < B18 THEN [h |-> h, m |-> m, l |-> l + 1, scale |-> scale]
    ELSE IF m + 1 < B18 THEN [h |-> h, m |-> m + 1, l |-> 0, scale |-> scale]
    ELSE IF h + 1 < B17 THEN [h |-> h + 1, m |-> 0, l |-> 0, scale |-> scale]
    ELSE [h |-> B16, m |-> 0, l |-> 0, scale |-> scale - 1]

\* the least k with a * 2^k >= b
RECURSIVE ShiftUp(_, _)
ShiftUp(a, b) == IF a >= b THEN 0 ELSE 1 + ShiftUp(2 * a, b)

\* the greatest k with b * 2^k <= a  (a >= b)
RECURSIVE ShiftDown(_, _)
ShiftDown(a, b) == IF 2 * b > a THEN 0 ELSE 1 + ShiftDown(a, 2 * b)

\* a / b for ints 0 <= a, 0 < b, both below 2^12
TrueDiv(a, b) ==
    IF a = 0 THEN FZero
    ELSE LET up == ShiftUp(a, b)
             down == IF a >= b THEN ShiftDown(a, b) ELSE 0
             num == a * Pow2(up)
             den == b * Pow2(down)
             \* num / den lies in [1, 2): long division, limb by limb
             h == (num * B16) \div den
             r1 == num * B16 - h * den
             m == (r1 * B18) \div den
             r2 == r1 * B18 - m * den
             l == (r2 * B18) \div den
             r3 == r2 * B18 - l * den
             roundUp == 2 * r3 > den \/ (2 * r3 = den /\ l % 2 = 1)
         IN  RoundMant(h, m, l, roundUp, 52 + up - down)

\* float(n) for an int 0 <= n < 2^17
FromInt(n) ==
    IF n = 0 THEN FZero
    ELSE [h |-> n * Pow2(17 - BitLen(n)), m |-> 0, l |-> 0,
          scale |-> 53 - BitLen(n)]

\* f * n for a float f and an int 0 <= n < 2^13 (the int converts exactly)
FMulInt(f, n) ==
    IF f = FZero \/ n = 0 THEN FZero
    ELSE LET pl == f.l * n
             pm == f.m * n + pl \div B18
             top == f.h * n + pm \div B18
             l0 == pl % B18
             m0 == pm % B18
             \* the exact product has 53 + d bits: drop the low d
             d == BitLen(top) - 17
             D == Pow2(d)
             h == top \div D
             m == (top % D) * (B18 \div D) + m0 \div D
             l == (m0 % D) * (B18 \div D) + l0 \div D
             dropped == l0 % D
             roundUp == /\ d > 0
                        /\ \/ 2 * dropped > D
                           \/ 2 * dropped = D /\ l % 2 = 1
         IN  RoundMant(h, m, l, roundUp, f.scale - d)

\* round(f) for a float 0 <= f < 2^17: the nearest int, ties to even
PyRound(f) ==
    IF f = FZero \/ f.scale >= 54 THEN 0
    ELSE LET k == f.scale - 36
             K == Pow2(k)
             ipart == f.h \div K
             fr == f.h % K
             above == IF k = 0 THEN f.m > B17 \/ (f.m = B17 /\ f.l > 0)
                      ELSE 2 * fr > K \/ (2 * fr = K /\ (f.m > 0 \/ f.l > 0))
             tie == IF k = 0 THEN f.m = B17 /\ f.l = 0
                    ELSE 2 * fr = K /\ f.m = 0 /\ f.l = 0
         IN  IF above \/ (tie /\ ipart % 2 = 1) THEN ipart + 1 ELSE ipart

(***************************************************************************)
(* collections.Counter: the distinct elements of a sequence in the order   *)
(* they are first met, each with its count.                                *)
(***************************************************************************)
CountOf(x, seq) == Cardinality({i \in DOMAIN seq : seq[i] = x})

\* the indices at which an element occurs for the first time
FirstIdx(seq) == {i \in DOMAIN seq : \A j \in 1..(i - 1) : seq[j] # seq[i]}

\* Counter(seq).most_common(k): by count, ties in the order first met
RECURSIVE TopK(_, _, _, _)
TopK(seq, cnt, idx, k) ==
    IF k = 0 \/ idx = {} THEN <<>>
    ELSE LET best == CHOOSE i \in idx : \A j \in idx :
                        cnt[i] > cnt[j] \/ (cnt[i] = cnt[j] /\ i <= j)
         IN  <<seq[best]>> \o TopK(seq, cnt, idx \ {best}, k - 1)

most_common(seq, k) ==
    LET idx == FirstIdx(seq)
        cnt == [i \in idx |-> CountOf(seq[i], seq)]
    IN  TopK(seq, cnt, idx, k)

\* sep.join(parts)
RECURSIVE Join(_, _)
Join(parts, sep) ==
    IF parts = <<>> THEN <<>>
    ELSE IF Len(parts) = 1 THEN parts[1]
    ELSE parts[1] \o sep \o Join(Tail(parts), sep)

RECURSIVE SumSeq(_)
SumSeq(seq) == IF seq = <<>> THEN 0 ELSE Head(seq) + SumSeq(Tail(seq))

(***************************************************************************)
(* The feature functions.  calculate_entropy (a sum of logarithms) has no  *)
(* counterpart here: nothing reads the entropy column back.                *)
(***************************************************************************)
\* sum(count * (count - 1) for count in freq.values())
RECURSIVE SumFreqs(_, _)
SumFreqs(text, idx) ==
    IF idx = {} THEN 0
    ELSE LET i == CHOOSE j \in idx : TRUE
             c == CountOf(text[i], text)
         IN  c * (c - 1) + SumFreqs(text, idx \ {i})

index_of_coincidence(text) ==
    LET n == Len(text)
    IN  IF n <= 1 THEN FZero
        ELSE TrueDiv(SumFreqs(text, FirstIdx(text)), n * (n - 1))

\* [text[i:i+2] for i in range(len(text)-1)]
Bigrams(text) == [i \in 1..(Len(text) - 1) |-> <<text[i], text[i + 1]>>]

\* returns (bigram_counts, most_common); the Counter is kept as the list it
\* counts
calculate_bigram_stats(text) ==
    IF Len(text) < 2 THEN [bigram_counts |-> <<>>, most_common |-> <<>>]
    ELSE LET bigrams == Bigrams(text)
         IN  [bigram_counts |-> bigrams,
              most_common |-> IF bigrams # <<>> THEN most_common(bigrams, 1)[1]
                              ELSE <<>>]

\* a variant of LetterShift: the plaintext letter minus the ciphertext letter
LetterShiftReversed(p, c) == (p - c) % 26

\* (ord(c) - ord(p)) % 26
LetterShift(p, c) == (c - p) % 26

\* [(ord(c) - ord(p)) % 26 for p, c in zip(plaintext, ciphertext)]
Shifts(plain, cipher) == [i \in 1..Len(plain) |-> LetterShift(plain[i], cipher[i])]

\* returns (shift_counts, self_encryptions, avg_shift)
calculate_letter_shift_stats(plain, cipher) ==
    IF Len(plain) # Len(cipher)
    THEN [shift_counts |-> <<>>, self_encryptions |-> 0, avg_shift |-> FZero]
    ELSE LET shifts == Shifts(plain, cipher)
         IN  [shift_counts |-> shifts,
              self_encryptions |-> CountOf(0, shifts),
              avg_shift |-> IF shifts # <<>>
                            THEN TrueDiv(SumSeq(shifts), Len(shifts))
                            ELSE FZero]

\* sum(1 for i in range(len(ciphertext)-1) if ciphertext[i] == ciphertext[i+1])
RECURSIVE AdjacentMatches(_)
AdjacentMatches(text) ==
    IF Len(text) < 2 THEN 0
    ELSE (IF text[1] = text[2] THEN 1 ELSE 0) + AdjacentMatches(Tail(text))

\* a variant of Kappa1: the count over the length, not over the pairs
Kappa1OverLength(cipher) ==
    IF Len(cipher) > 1 THEN TrueDiv(AdjacentMatches(cipher), Len(cipher))
    ELSE FZero

\* the kappa test of generate_dataset
Kappa1(cipher) ==
    IF Len(cipher) > 1 THEN TrueDiv(AdjacentMatches(cipher), Len(cipher) - 1)
    ELSE FZero

\* ord(ciphertext[0]) - ord(plaintext[0]) and the last-letter twin raise
\* IndexError on an empty string
MetricsRaise(plain, cipher) == cipher = <<>> \/ plain = <<>>

\* the sample_data dict of generate_dataset (without the entropy column)
SampleData(plain, cipher, pos, mtype) ==
    LET bg == calculate_bigram_stats(cipher)
        sh == calculate_letter_shift_stats(plain, cipher)
    IN  [plaintext |-> plain,
         ciphertext |-> cipher,
         rotor_left |-> <<pos[1]>>,
         rotor_middle |-> <<pos[2]>>,
         rotor_right |-> <<pos[3]>>,
         full_position |-> pos,
         message_type |-> mtype,
         plaintext_length |-> Len(plain),
         ciphertext_length |-> Len(cipher),
         index_of_coincidence |-> index_of_coincidence(cipher),
         kappa_1 |-> Kappa1(cipher),
         most_common_plaintext_letter |-> most_common(plain, 1),
         most_common_ciphertext_letter |-> most_common(cipher, 1),
         most_common_bigram |-> bg.most_common,
         top_3_bigrams |-> Join(most_common(bg.bigram_counts, 3), <<44>>),
         self_encryptions |-> sh.self_encryptions,
         avg_shift |-> sh.avg_shift,
         first_letter_shift |-> LetterShift(plain[1], cipher[1]),
         last_letter_shift |-> LetterShift(plain[Len(plain)], cipher[Len(cipher)]),
         repeated_letters |-> AdjacentMatches(cipher),
         first_letter |-> <<cipher[1]>>,
         last_letter |-> <<cipher[Len(cipher)]>>]

(***************************************************************************)
(* The rotor position sampler.                                             *)
(***************************************************************************)
\* ['AAA', 'AAB', 'AAZ', 'ZAA', 'BCD', 'XYZ']
CommonPositions ==
    << <<65,65,65>>, <<65,65,66>>, <<65,65,90>>, <<90,65,65>>, <<66,67,68>>,
       <<88,89,90>> >>

CommonDraws == {1}

\* generate_position(): three letters A-Z; the draw here is "QWE"
generate_position == {<<81,87,69>>}

(***************************************************************************)
(* The oracle adapter.  What subprocess.run does is the environment's      *)
(* choice: it raises TimeoutExpired, raises another exception, or returns  *)
(* an exit status and the captured standard output.                        *)
(***************************************************************************)
\* Python's None; no string holds the character -1
None == <<-1>>

Whitespace == {9, 10, 11, 12, 13, 32}

RECURSIVE LStrip(_)
LStrip(s) == IF s # <<>> /\ Head(s) \in Whitespace THEN LStrip(Tail(s)) ELSE s

RECURSIVE RStrip(_)
RStrip(s) ==
    IF s # <<>> /\ s[Len(s)] \in Whitespace THEN RStrip(SubSeq(s, 1, Len(s) - 1))
    ELSE s

\* s.strip()
Strip(s) == RStrip(LStrip(s))

\* every letter moved 1..25 places in the alphabet, as the right rotor
\* letter says: an output of the input's length without self-encryptions
Shifted(plain, pos) ==
    LET k == 1 + ((pos[3] - 65) % 25)
    IN  [i \in 1..Len(plain) |-> 65 + ((plain[i] - 65 + k) % 26)]

\* n letters, a run of X and then Y and X in turn: an output in which about
\* two of three adjacent pairs are equal
RunHeavy(n) ==
    LET run == (2 * n) \div 3 + 1
    IN  [i \in 1..n |-> IF i <= run \/ (i - run) % 2 = 0 THEN 88 ELSE 89]

\* an output that ignores the plaintext: 23 letters at position AAA, one
\* letter elsewhere
Fixed(pos) == IF pos = <<65,65,65>> THEN RunHeavy(23) ELSE <<65>>

\* what the executable may print for a plaintext and a position
Stdouts(plain, pos) ==
    { Shifted(plain, pos) \o <<10>>,
      <<32>> \o Fixed(pos) \o <<10>>,
      <<10>> }

\* the ways subprocess.run can end
ProcessOutcomes(plain, pos) ==
    {[kind |-> "timeout", returncode |-> 0, stdout |-> <<>>],
     [kind |-> "exception", returncode |-> 0, stdout |-> <<>>],
     [kind |-> "exited", returncode |-> 1, stdout |-> Shifted(plain, pos) \o <<10>>]}
    \cup {[kind |-> "exited", returncode |-> 0, stdout |-> out] :
             out \in Stdouts(plain, pos)}

\* run_enigma's return value for one outcome of subprocess.run
run_enigma(outcome) ==
    IF outcome.kind = "timeout" THEN None
    ELSE IF outcome.kind = "exception" THEN None
    ELSE IF outcome.returncode # 0 THEN None
    ELSE Strip(outcome.stdout)

\* "if not ciphertext": None and the empty string are false
Falsy(x) == x = None \/ x = <<>>

(***************************************************************************)
(* generate_dataset as a state machine.                                    *)
(***************************************************************************)
VARIABLES
    count,          \* argument: the number of samples asked for
    max_length,     \* argument
    batch_size,     \* argument
    pc,             \* where generate_dataset (or the called function) stands
    file,           \* the lines of output_file
    success_count,
    batch_data,
    message_type,   \* locals of the loop body
    plaintext,
    position,
    ciphertext,
    sample_data,
    accepted,       \* history: every sample_data appended to a batch, in order
    oracle_calls,   \* history: subprocess.run calls of the current iteration
    ret             \* FeatureSpec: the value a feature function returned

vars == <<count, max_length, batch_size, pc, file, success_count, batch_data,
          message_type, plaintext, position, ciphertext, sample_data, accepted,
          oracle_calls, ret>>

args == <<count, max_length, batch_size>>

\* the --length values tried: negative, the smallest that yields 8 letters
\* (it cuts inside a word), the default
MaxLengths == {-1, 8, 50}

\* csv.DictWriter.writeheader(): the line of column names
HeaderRow == [header |-> "fieldnames"]

\* a line left in output_file by an earlier run
StaleRow == [stale |-> TRUE]

NoSample == [none |-> TRUE]

Init ==
    /\ count \in -1..MaxCount
    /\ max_length \in MaxLengths
    /\ batch_size \in {0, 1, MaxBatch}
    /\ pc = "open"
    /\ file \in {<<>>, <<HeaderRow, StaleRow>>}
    /\ success_count = 0
    /\ batch_data = <<>>
    /\ message_type = "WEATHER"
    /\ plaintext = None
    /\ position = None
    /\ ciphertext = None
    /\ sample_data = NoSample
    /\ accepted = <<>>
    /\ oracle_calls = 0
    /\ ret = NoSample

\* open(output_file, 'w') and writeheader(); success_count = 0; batch_data = []
Open ==
    /\ pc = "open"
    /\ file' = <<HeaderRow>>
    /\ success_count' = 0
    /\ batch_data' = <<>>
    /\ pc' = "loop"
    /\ UNCHANGED <<args, message_type, plaintext, position, ciphertext,
                   sample_data, accepted, oracle_calls, ret>>

\* one pass from the loop test to the length check
Generate ==
    /\ pc = "loop"
    /\ success_count < count
    /\ \E mtype \in MessageTypes : \E raw \in RawTexts(mtype) :
          /\ message_type' = mtype
          /\ plaintext' = Normalize(raw, max_length)
          /\ pc' = IF Len(plaintext') < 8 THEN "loop" ELSE "position"
    /\ oracle_calls' = 0
    /\ UNCHANGED <<args, file, success_count, batch_data, position, ciphertext,
                   sample_data, accepted, ret>>

\* position = weighted_position()
Position ==
    /\ pc = "position"
    /\ \/ \E i \in CommonDraws : position' = CommonPositions[i]
       \/ position' \in generate_position
    /\ pc' = "oracle"
    /\ UNCHANGED <<args, file, success_count, batch_data, message_type,
                   plaintext, ciphertext, sample_data, accepted, oracle_calls,
                   ret>>

\* a variant of Oracle: a failed call is tried again with the same inputs
OracleRetriesOnFailure ==
    /\ pc = "oracle"
    /\ \E outcome \in ProcessOutcomes(plaintext, position) :
          /\ ciphertext' = run_enigma(outcome)
          /\ pc' = IF Falsy(ciphertext') /\ oracle_calls = 0 THEN "oracle"
                   ELSE IF Falsy(ciphertext') THEN "loop"
                   ELSE "metrics"
    /\ oracle_calls' = oracle_calls + 1
    /\ UNCHANGED <<args, file, success_count, batch_data, message_type,
                   plaintext, position, sample_data, accepted, ret>>

\* a variant of Oracle: a call that fails is never returned from
OracleBlocksOnFailure ==
    /\ pc = "oracle"
    /\ \E outcome \in ProcessOutcomes(plaintext, position) :
          /\ ciphertext' = run_enigma(outcome)
          /\ pc' = IF ciphertext' = None THEN "blocked"
                   ELSE IF Falsy(ciphertext') THEN "loop"
                   ELSE "metrics"
    /\ oracle_calls' = oracle_calls + 1
    /\ UNCHANGED <<args, file, success_count, batch_data, message_type,
                   plaintext, position, sample_data, accepted, ret>>

\* ciphertext = run_enigma(plaintext, position); if not ciphertext: continue
Oracle ==
    /\ pc = "oracle"
    /\ \E outcome \in ProcessOutcomes(plaintext, position) :
          /\ ciphertext' = run_enigma(outcome)
          /\ pc' = IF Falsy(ciphertext') THEN "loop" ELSE "metrics"
    /\ oracle_calls' = oracle_calls + 1
    /\ UNCHANGED <<args, file, success_count, batch_data, message_type,
                   plaintext, position, sample_data, accepted, ret>>

\* the metrics, sample_data, batch_data.append(sample_data), success_count += 1
Accept ==
    /\ pc = "metrics"
    /\ IF MetricsRaise(plaintext, ciphertext)
       THEN /\ pc' = "IndexError"
            /\ UNCHANGED <<sample_data, batch_data, success_count, accepted>>
       ELSE /\ sample_data' = SampleData(plaintext, ciphertext, position,
                                         message_type)
            /\ batch_data' = Append(batch_data, sample_data')
            /\ success_count' = success_count + 1
            /\ accepted' = Append(accepted, sample_data')
            /\ pc' = "flush"
    /\ UNCHANGED <<args, file, message_type, plaintext, position, ciphertext,
                   oracle_calls, ret>>

\* a variant of Flush: the batch is written and not emptied
FlushKeepsBatch ==
    /\ pc = "flush"
    /\ IF Len(batch_data) >= batch_size
       THEN /\ file' = file \o batch_data
            /\ UNCHANGED batch_data
       ELSE UNCHANGED <<file, batch_data>>
    /\ pc' = "loop"
    /\ UNCHANGED <<args, success_count, message_type, plaintext, position,
                   ciphertext, sample_data, accepted, oracle_calls, ret>>

\* a variant of Flush: the batch is written once it is longer than batch_size
FlushAboveBatchSize ==
    /\ pc = "flush"
    /\ IF Len(batch_data) > batch_size
       THEN /\ file' = file \o batch_data
            /\ batch_data' = <<>>
       ELSE UNCHANGED <<file, batch_data>>
    /\ pc' = "loop"
    /\ UNCHANGED <<args, success_count, message_type, plaintext, position,
                   ciphertext, sample_data, accepted, oracle_calls, ret>>

\* if len(batch_data) >= batch_size: writerows(batch_data); batch_data = []
Flush ==
    /\ pc = "flush"
    /\ IF Len(batch_data) >= batch_size
       THEN /\ file' = file \o batch_data
            /\ batch_data' = <<>>
       ELSE UNCHANGED <<file, batch_data>>
    /\ pc' = "loop"
    /\ UNCHANGED <<args, success_count, message_type, plaintext, position,
                   ciphertext, sample_data, accepted, oracle_calls, ret>>

\* the loop test fails
ExitLoop ==
    /\ pc = "loop"
    /\ ~(success_count < count)
    /\ pc' = "remainder"
    /\ UNCHANGED <<args, file, success_count, batch_data, message_type,
                   plaintext, position, ciphertext, sample_data, accepted,
                   oracle_calls, ret>>

\* a variant of Remainder: the last partial batch is not written
RemainderDropsBatch ==
    /\ pc = "remainder"
    /\ file' = file
    /\ pc' = "returned"
    /\ UNCHANGED <<args, success_count, batch_data, message_type, plaintext,
                   position, ciphertext, sample_data, accepted, oracle_calls,
                   ret>>

\* if batch_data: writerows(batch_data); return True
Remainder ==
    /\ pc = "remainder"
    /\ file' = IF batch_data # <<>> THEN file \o batch_data ELSE file
    /\ pc' = "returned"
    /\ UNCHANGED <<args, success_count, batch_data, message_type, plaintext,
                   position, ciphertext, sample_data, accepted, oracle_calls,
                   ret>>

Next ==
    \/ Open
    \/ Generate
    \/ Position
    \/ Oracle
    \/ Accept
    \/ Flush
    \/ ExitLoop
    \/ Remainder

Spec == Init /\ [][Next]_vars

(***************************************************************************)
(* The feature functions on their own: FeatureSpec hands every pair of     *)
(* short strings (and one longer pair) to calculate_bigram_stats, to       *)
(* calculate_letter_shift_stats and to the metrics block of                *)
(* generate_dataset, without the length and emptiness checks in front.     *)
(***************************************************************************)
FxAlphabet == {65, 66, 90}

\* "HELLOWORLD"
HELLOWORLD == <<72,69,76,76,79,87,79,82,76,68>>

FxStrings ==
    UNION {[1..n -> FxAlphabet] : n \in 0..MaxFxLen} \cup {HELLOWORLD}

FeatInit ==
    /\ count = 1
    /\ max_length = 50
    /\ batch_size = 1000
    /\ pc \in {"call", "metrics"}
    /\ file = <<HeaderRow>>
    /\ success_count = 0
    /\ batch_data = <<>>
    /\ message_type = "WEATHER"
    /\ plaintext \in FxStrings
    /\ position = <<65,65,65>>
    /\ ciphertext \in FxStrings
    /\ sample_data = NoSample
    /\ accepted = <<>>
    /\ oracle_calls = 0
    /\ ret = NoSample

CallBigramStats ==
    /\ pc = "call"
    /\ ret' = calculate_bigram_stats(ciphertext)
    /\ pc' = "bigram_stats"
    /\ UNCHANGED <<args, file, success_count, batch_data, message_type,
                   plaintext, position, ciphertext, sample_data, accepted,
                   oracle_calls>>

CallLetterShiftStats ==
    /\ pc = "call"
    /\ ret' = calculate_letter_shift_stats(plaintext, ciphertext)
    /\ pc' = "letter_shift_stats"
    /\ UNCHANGED <<args, file, success_count, batch_data, message_type,
                   plaintext, position, ciphertext, sample_data, accepted,
                   oracle_calls>>

FeatNext ==
    \/ CallBigramStats
    \/ CallLetterShiftStats
    \/ Accept

FeatureSpec == FeatInit /\ [][FeatNext]_vars

(***************************************************************************)
(* The properties.                                                         *)
(***************************************************************************)
\* the data rows of output_file
DataRows == IF file = <<>> THEN <<>> ELSE Tail(file)

\* C1: every accepted record has a ciphertext as long as its plaintext, and
\* its two length columns are equal.
C1_CiphertextLengthEqualsPlaintextLength ==
    \A i \in 1..Len(accepted) :
        /\ Len(accepted[i].ciphertext) = Len(accepted[i].plaintext)
        /\ accepted[i].ciphertext_length = accepted[i].plaintext_length

\* C2: the plaintext of every accepted record holds only the letters A-Z.
C2_AcceptedPlaintextOnlyAToZ ==
    \A i \in 1..Len(accepted) :
        \A j \in 1..Len(accepted[i].plaintext) :
            accepted[i].plaintext[j] \in AsciiUpper

\* C3: for count >= 0, success_count never exceeds count, and when
\* generate_dataset has returned the file holds the header and exactly count
\* data rows.
C3_ExactlyCountRows ==
    count >= 0 =>
        /\ success_count <= count
        /\ pc = "returned" =>
              /\ Len(file) = 1 + count
              /\ file[1] = HeaderRow
              /\ \A i \in 2..Len(file) : file[i] # HeaderRow /\ file[i] # StaleRow

\* a run asked for MaxCount rows has returned with all of them on disk
C3_Witness ==
    /\ pc = "returned"
    /\ count = MaxCount
    /\ Len(file) = 1 + MaxCount
    /\ success_count = MaxCount

\* C4: a call of the oracle that fails (run_enigma returns None) leaves
\* success_count, the batch and the file as they were, is the only call of
\* its iteration, and hands control to a new iteration that draws again.
C4_OracleFailureLeavesStateUnchanged ==
    [][(pc = "oracle" /\ ciphertext' = None) =>
          /\ success_count' = success_count
          /\ batch_data' = batch_data
          /\ file' = file
          /\ accepted' = accepted
          /\ oracle_calls' = 1
          /\ pc' = "loop"
          /\ success_count' < count']_vars

\* after one accepted record, the oracle has failed in a later iteration
C4_Witness ==
    /\ pc = "loop"
    /\ oracle_calls = 1
    /\ ciphertext = None
    /\ batch_data # <<>>
    /\ success_count = 1

\* C5: once the file is opened it is the header followed by a prefix of the
\* accepted records, each once and in acceptance order; with what waits in
\* the batch (until the last write) they are all accepted records.
C5_FileIsHeaderThenAcceptedPrefix ==
    pc # "open" =>
        /\ file # <<>>
        /\ file[1] = HeaderRow
        /\ Len(DataRows) <= Len(accepted)
        /\ DataRows = SubSeq(accepted, 1, Len(DataRows))
        /\ pc # "returned" => DataRows \o batch_data = accepted
        /\ pc = "returned" => DataRows = accepted

\* a file that held an old row now holds the header and two records, written
\* by two flushes
C5_Witness ==
    /\ pc = "returned"
    /\ batch_size = 1
    /\ Len(file) = 3
    /\ file[1] = HeaderRow
    /\ file[2] = accepted[1]
    /\ file[3] = accepted[2]

\* C6: the plaintext of every accepted record has between 8 and max_length
\* letters, and no shorter plaintext gets as far as the position draw.
C6_AcceptedLengthWithinBounds ==
    /\ \A i \in 1..Len(accepted) :
          /\ Len(accepted[i].plaintext) >= 8
          /\ Len(accepted[i].plaintext) <= max_length
    /\ pc \in {"position", "oracle", "metrics"} => Len(plaintext) >= 8

\* the adjacent equal pairs of a string, counted position by position
EqualPairs(text) == Cardinality({i \in 1..(Len(text) - 1) : text[i] = text[i + 1]})

\* C7: in every accepted record with a ciphertext of N > 1 letters,
\* repeated_letters is the number of adjacent equal pairs, kappa_1 is that
\* number divided by N - 1 as a float, and rounding kappa_1 * (N - 1) gives
\* repeated_letters back; with N = 1 both are 0.
C7_RepeatedLettersIsRoundedKappaProduct ==
    \A i \in 1..Len(accepted) :
        LET r == accepted[i]
            N == Len(r.ciphertext)
        IN  /\ r.repeated_letters = EqualPairs(r.ciphertext)
            /\ N > 1 =>
                  /\ r.kappa_1 = TrueDiv(r.repeated_letters, N - 1)
                  /\ PyRound(FMulInt(r.kappa_1, N - 1)) = r.repeated_letters
            /\ N = 1 => r.repeated_letters = 0 /\ r.kappa_1 = FZero

\* C7 as the claim has it: kappa_1 * (N - 1), the float product, equals
\* repeated_letters.
C7_RepeatedLettersIsExactKappaProduct ==
    \A i \in 1..Len(accepted) :
        LET r == accepted[i]
            N == Len(r.ciphertext)
        IN  /\ N > 1 => FMulInt(r.kappa_1, N - 1) = FromInt(r.repeated_letters)
            /\ N = 1 => r.repeated_letters = 0 /\ r.kappa_1 = FZero

\* an accepted record of 23 letters with 15 equal pairs: 15 / 22 * 22 is not 15
C7_Witness ==
    \E i \in 1..Len(accepted) :
        /\ Len(accepted[i].ciphertext) = 23
        /\ accepted[i].repeated_letters = 15
        /\ FMulInt(accepted[i].kappa_1, 22) # FromInt(15)
        /\ PyRound(FMulInt(accepted[i].kappa_1, 22)) = 15

\* the shift of one letter pair, by cases
ShiftOf(p, c) == IF c >= p THEN c - p ELSE c - p + 26

\* C8: for strings of equal length calculate_letter_shift_stats returns, per
\* position, the shift (c - p) mod 26, a number in 0..25; self_encryptions is
\* the number of positions where the two letters agree; avg_shift is the
\* mean of the shifts; equal strings give self_encryptions = length and
\* avg_shift = 0.
C8_LetterShiftStats ==
    (pc = "letter_shift_stats" /\ Len(plaintext) = Len(ciphertext)) =>
        LET n == Len(plaintext)
            total == SumSeq([i \in 1..n |-> ShiftOf(plaintext[i], ciphertext[i])])
        IN  /\ Len(ret.shift_counts) = n
            /\ \A i \in 1..n :
                  /\ ret.shift_counts[i] \in 0..25
                  /\ ret.shift_counts[i] = ShiftOf(plaintext[i], ciphertext[i])
            /\ ret.self_encryptions =
                  Cardinality({i \in 1..n : ciphertext[i] = plaintext[i]})
            /\ n > 0 => ret.avg_shift = TrueDiv(total, n)
            /\ ciphertext = plaintext =>
                  ret.self_encryptions = n /\ ret.avg_shift = FZero

\* calculate_letter_shift_stats("HELLOWORLD", "HELLOWORLD") has returned
C8_Witness ==
    /\ pc = "letter_shift_stats"
    /\ plaintext = HELLOWORLD
    /\ ciphertext = HELLOWORLD
    /\ ret.self_encryptions = 10
    /\ ret.avg_shift = FZero

\* C9: with a plaintext of fewer than 2 letters (and a ciphertext as long) or
\* an empty ciphertext, feature extraction raises nothing, the bigram fields
\* are empty and the shift fields are zero.
C9_ShortInputsDegrade ==
    ((Len(plaintext) < 2 /\ Len(ciphertext) = Len(plaintext)) \/ ciphertext = <<>>) =>
        /\ pc # "IndexError"
        /\ pc = "bigram_stats" =>
              ret.bigram_counts = <<>> /\ ret.most_common = <<>>
        /\ pc = "letter_shift_stats" =>
              ret.self_encryptions = 0 /\ ret.avg_shift = FZero
        /\ pc = "flush" =>
              /\ sample_data.most_common_bigram = <<>>
              /\ sample_data.top_3_bigrams = <<>>
              /\ sample_data.self_encryptions = 0
              /\ sample_data.avg_shift = FZero
              /\ sample_data.first_letter_shift = 0
              /\ sample_data.last_letter_shift = 0

\* C10: for batch_size >= 1, at the end of every iteration the rows on disk
\* and the batch together are success_count records and the batch is shorter
\* than batch_size; the batch is written and emptied exactly when it reaches
\* batch_size, so it holds success_count mod batch_size records; after the
\* loop the rest is written once.
C10_BatchingInvariant ==
    batch_size >= 1 =>
        /\ pc = "loop" =>
              /\ Len(DataRows) + Len(batch_data) = success_count
              /\ Len(batch_data) < batch_size
              /\ Len(batch_data) = success_count % batch_size
        /\ pc = "flush" => Len(batch_data) <= batch_size
        /\ pc = "returned" =>
              /\ Len(DataRows) = success_count
              /\ DataRows = accepted

\* a batch of MaxBatch records has been written and emptied
C10_Witness ==
    /\ pc = "loop"
    /\ batch_size = MaxBatch
    /\ success_count = MaxBatch
    /\ batch_data = <<>>
    /\ Len(file) = 1 + MaxBatch

(***************************************************************************)
(* Termination.  generate_dataset is sequential code: a step that can be   *)
(* taken is taken (subprocess.run returns within its timeout), which is    *)
(* weak fairness of each step.  That attempts with a plaintext of 8        *)
(* letters or more and attempts the oracle answers keep occurring is an    *)
(* assumption on the draws and on the executable.                          *)
(***************************************************************************)
\* an oracle call that returns a ciphertext
OracleSuccess == Oracle /\ pc' = "metrics"

\* an oracle call that fails: timeout, exception, nonzero exit, empty output
OracleFailure == Oracle /\ pc' = "loop"

\* the metrics block runs to its end: weak fairness of Accept, which is
\* enabled exactly when pc = "metrics" and always leaves it
MetricsCompletes == []<>(pc # "metrics")

\* attempts with a long enough plaintext keep occurring: strong fairness of
\* the Generate steps that reach the position draw, which are enabled
\* whenever the loop test holds
LongEnoughAttemptsRecur ==
    []<>(pc = "loop" /\ success_count < count) => []<>(pc = "position")

\* the steps the code itself guarantees
Scheduling ==
    /\ WF_vars(Open)
    /\ WF_vars(Position)
    /\ WF_vars(Oracle)
    /\ MetricsCompletes
    /\ WF_vars(Flush)
    /\ WF_vars(ExitLoop)
    /\ WF_vars(Remainder)

\* the runs followed to their end: a batch_size of 0 writes after every
\* record as a batch_size of 1 does, and Open discards what the file held
LiveInit == Init /\ batch_size >= 1 /\ file = <<>>

LiveSpec ==
    /\ LiveInit
    /\ [][Next]_vars
    /\ Scheduling
    /\ LongEnoughAttemptsRecur
    /\ SF_vars(OracleSuccess)

\* the same without the assumption on the attempts
WeakSpec == LiveInit /\ [][Next]_vars /\ Scheduling

\* C11: a failed oracle call does not end or block the run: whenever the
\* oracle is called the call can fail and the driver is then back at the
\* loop test with its quota unchanged (so failing attempts can repeat without
\* limit), and under the fairness assumption generate_dataset eventually
\* returns, with every accepted record, the last partial batch included, in
\* the file.
C11_FailureNeverBlocksAndRunTerminates ==
    /\ [](pc = "oracle" => ENABLED OracleFailure)
    /\ [][OracleFailure => (pc' = "loop" /\ success_count' = success_count)]_vars
    /\ <>(pc = "returned" /\ DataRows = accepted)

\* C11 without the fairness assumption: termination alone, which the loop
\* without an attempt cap does not give.
C11_TerminatesWithoutAssumption == <>(pc = "returned")

\* a run has returned after writing a partial batch
C11_Witness ==
    /\ pc = "returned"
    /\ batch_size = MaxBatch
    /\ count = 1
    /\ Len(batch_data) = 1
    /\ Tail(file) = batch_data
    /\ ciphertext # None

=============================================================================
